---------------------------- MODULE Spec2Model ----------------------------
(***************************************************************************)
(* A model of mermaid_from_k8s.py: the resource index, the label-selector  *)
(* matcher, the relationship extractors and the edge assembly of main.     *)
(*                                                                         *)
(* Python values are tagged records, so that a value of the wrong type is  *)
(* visible to the model: [t |-> "null"], [t |-> "str", s |-> tokens],      *)
(* [t |-> "map", m |-> function], [t |-> "list", l |-> sequence].  A str   *)
(* is a sequence of tokens; the token "|" is the separator key() writes    *)
(* and split("|", 2) reads.  RAISE is an exception on its way up.          *)
(***************************************************************************)
EXTENDS Naturals, Sequences, FiniteSets

VARIABLES
  docs,           \* read_yaml_documents: the documents loaded so far
  cursor,         \* position of the directory walk in the Catalog
  pc,             \* where main stands
  by,             \* index_resources: kind -> ns -> name -> document
  pod_templates,  \* index_resources: key -> template labels
  nsq,            \* main: the sorted namespaces still to visit
  edges,          \* main: the edge list
  run,            \* 1 in the first run of the pipeline, 2 in the second
  first_edges,    \* the edge list the first run ended with
  h_labels,            \* matcher harness: the label set L
  h_selector,            \* matcher harness: the selector S'
  h_prev,       \* matcher harness: the selector S before the last step
  h_step,       \* matcher harness: what the last step did
  h_res         \* matcher harness: match_selector's outcome on (L, S')

pipe_vars == <<docs, cursor, pc, by, pod_templates, nsq, edges, run, first_edges>>
h_vars == <<h_labels, h_selector, h_prev, h_step, h_res>>
vars == <<docs, cursor, pc, by, pod_templates, nsq, edges, run, first_edges,
          h_labels, h_selector, h_prev, h_step, h_res>>

-----------------------------------------------------------------------------
(* Python values *)

Null == [t |-> "null"]
Str(s) == [t |-> "str", s |-> s]
Tok(x) == [t |-> "str", s |-> <<x>>]
Map(m) == [t |-> "map", m |-> m]
List(l) == [t |-> "list", l |-> l]
RAISE == [t |-> "raise"]
EmptyFn == [k \in {} |-> Null]
EmptyMap == Map(EmptyFn)
EmptyList == List(<<>>)

Put(m, k, v) == [j \in DOMAIN m \cup {k} |-> IF j = k THEN v ELSE m[j]]
Range(l) == {l[i] : i \in 1..Len(l)}

IsRaise(v) == v.t = "raise"

\* bool(v)
Truthy(v) ==
  CASE v.t = "null" -> FALSE
    [] v.t = "str" -> v.s # <<>>
    [] v.t = "map" -> DOMAIN v.m # {}
    [] v.t = "list" -> v.l # <<>>
    [] OTHER -> FALSE

\* v.get(k, d): only a mapping has get
Get(v, k, d) ==
  IF v.t # "map" THEN RAISE
  ELSE IF k \in DOMAIN v.m THEN v.m[k] ELSE d

\* v or d
Or(v, d) == IF IsRaise(v) THEN v ELSE IF Truthy(v) THEN v ELSE d

\* The key a str stands for in a mapping (mapping keys are single tokens).
KeyOf(v) == IF v.t = "str" /\ Len(v.s) = 1 THEN v.s[1] ELSE "~"

\* x in c: "True", "False" or "Raise"
In3(x, c) ==
  CASE c.t = "map" ->
         IF x.t \in {"map", "list"} THEN "Raise"
         ELSE IF KeyOf(x) \in DOMAIN c.m THEN "True" ELSE "False"
    [] c.t = "list" -> IF x \in Range(c.l) THEN "True" ELSE "False"
    [] c.t = "str" ->
         IF x.t # "str" THEN "Raise"
         ELSE IF \E i \in 0..Len(c.s) : \E j \in i..Len(c.s) :
                   SubSeq(c.s, i + 1, j) = x.s
              THEN "True" ELSE "False"
    [] OTHER -> "Raise"

-----------------------------------------------------------------------------
(* match_selector *)

\* ml_outcome with the loop's test inverted: it fails only when no equality
\* term is met (any instead of all).
ml_outcome_any(labels, selector) ==
  LET ml == Or(Get(selector, "matchLabels", EmptyMap), EmptyMap) IN
  IF ml.t # "map" THEN "Raise"
  ELSE IF DOMAIN ml.m = {} THEN "True"
  ELSE IF labels.t # "map" THEN "Raise"
  ELSE IF \E k \in DOMAIN ml.m : Get(labels, k, Null) = ml.m[k]
       THEN "True" ELSE "False"

\* lines 79-82: the equality terms
ml_outcome(labels, selector) ==
  LET ml == Or(Get(selector, "matchLabels", EmptyMap), EmptyMap) IN
  IF ml.t # "map" THEN "Raise"
  ELSE IF DOMAIN ml.m = {} THEN "True"
  ELSE IF labels.t # "map" THEN "Raise"
  ELSE IF \E k \in DOMAIN ml.m : Get(labels, k, Null) # ml.m[k]
       THEN "False" ELSE "True"

\* lines 85-96: one expression term
expr_outcome(labels, expr) ==
  IF expr.t # "map" \/ labels.t # "map" THEN "Raise"
  ELSE
    LET key == Get(expr, "key", Null)
        operator == Get(expr, "operator", Null)
        values == Get(expr, "values", EmptyList)
        lv == Get(labels, KeyOf(key), Null)
    IN IF key.t \in {"map", "list"} THEN "Raise"
       ELSE IF operator = Tok("In") THEN
              (IF In3(lv, values) = "True" THEN "True" ELSE
               IF In3(lv, values) = "False" THEN "False" ELSE "Raise")
       ELSE IF operator = Tok("NotIn") THEN
              (IF In3(lv, values) = "True" THEN "False" ELSE
               IF In3(lv, values) = "False" THEN "True" ELSE "Raise")
       ELSE IF operator = Tok("Exists") THEN
              (IF In3(key, labels) = "True" THEN "True" ELSE "False")
       ELSE IF operator = Tok("DoesNotExist") THEN
              (IF In3(key, labels) = "True" THEN "False" ELSE "True")
       ELSE "True"

\* lines 83-84: the expression terms, in list order, up to the first that fails
RECURSIVE me_loop(_, _, _)
me_loop(labels, l, i) ==
  IF i > Len(l) THEN "True"
  ELSE LET r == expr_outcome(labels, l[i]) IN
       IF r = "True" THEN me_loop(labels, l, i + 1) ELSE r

me_outcome(labels, selector) ==
  LET me == Or(Get(selector, "matchExpressions", EmptyList), EmptyList) IN
  IF me.t = "list" THEN me_loop(labels, me.l, 1) ELSE "Raise"

\* match_selector(labels, selector): "True", "False", or "Raise" when it raises
match_selector_outcome(labels, selector) ==
  IF IsRaise(selector) \/ IsRaise(labels) THEN "Raise"
  ELSE IF ~Truthy(selector) THEN "False"
  ELSE IF selector.t # "map" THEN "Raise"
  ELSE IF ml_outcome(labels, selector) # "True" THEN ml_outcome(labels, selector)
  ELSE me_outcome(labels, selector)

match_selector(labels, selector) == match_selector_outcome(labels, selector) = "True"

-----------------------------------------------------------------------------
(* The documents a manifest directory may hold.  Kinds and namespaces are   *)
(* Kubernetes identifiers (no "|"); one resource name holds the separator.  *)
(* A document is a Python object: docs and the index hold references to it  *)
(* (its name here), and Doc dereferences one.                               *)

Meta(name) == Map([name |-> name])
MetaNs(ns, name) == Map([namespace |-> Tok(ns), name |-> name])
Named(x) == Map([name |-> Tok(x)])

LabelsWeb == Map([app |-> Tok("web")])
LabelsWebDb == Map([app |-> Tok("web"), tier |-> Tok("db")])
PodTemplate(labels, podspec) == Map([metadata |-> Map([labels |-> labels]), spec |-> podspec])

FullPodSpec ==
  Map([volumes |-> List(<<
         Map([name |-> Tok("v1"), configMap |-> Named("cfg")]),
         Map([name |-> Tok("v2"), secret |-> Map([secretName |-> Tok("sec")])]),
         Map([name |-> Tok("v3"),
              persistentVolumeClaim |-> Map([claimName |-> Tok("data")])])>>),
       containers |-> List(<<
         Map([name |-> Tok("main"),
              env |-> List(<<
                Map([name |-> Tok("A"),
                     valueFrom |-> Map([configMapKeyRef |-> Named("cfg")])]),
                Map([name |-> Tok("B"),
                     valueFrom |-> Map([secretKeyRef |-> Named("sec")])]),
                Map([name |-> Tok("C"), value |-> Tok("x")])>>),
              envFrom |-> List(<<
                Map([configMapRef |-> Named("cfg")]),
                Map([secretRef |-> Named("sec")])>>)])>>),
       serviceAccountName |-> Tok("sa")])

SaRoleRef(kind, name) == Map([kind |-> Tok(kind), name |-> Tok(name)])
SaSubject(name) == Map([kind |-> Tok("ServiceAccount"), name |-> Tok(name)])
ServicePath(svc) == Map([backend |-> Map([service |-> Named(svc)])])

DeployWeb ==
  Map([kind |-> Tok("Deployment"), metadata |-> MetaNs("ns1", Tok("web")),
       spec |-> Map([selector |-> Map([matchLabels |-> LabelsWeb]),
                     template |-> PodTemplate(LabelsWeb, FullPodSpec)])])

DeployDb ==
  Map([kind |-> Tok("Deployment"), metadata |-> MetaNs("ns2", Str(<<"a", "|", "b">>)),
       spec |-> Map([template |-> PodTemplate(LabelsWebDb, EmptyMap)])])

CronNightly ==
  Map([kind |-> Tok("CronJob"), metadata |-> MetaNs("ns1", Tok("nightly")),
       spec |-> Map([jobTemplate |-> Map([spec |-> Map([template |->
                  PodTemplate(LabelsWeb, Map([serviceAccountName |-> Tok("sa")]))])])])])

SvcWeb ==
  Map([kind |-> Tok("Service"), metadata |-> MetaNs("ns1", Tok("web-svc")),
       spec |-> Map([selector |-> LabelsWeb])])

SvcPlain ==
  Map([kind |-> Tok("Service"), metadata |-> Meta(Tok("plain")),
       spec |-> Map([clusterIP |-> Tok("None")])])

IngShop ==
  Map([kind |-> Tok("Ingress"), metadata |-> MetaNs("ns1", Tok("shop")),
       spec |-> Map([rules |-> List(<<
                       Map([http |-> Map([paths |->
                              List(<<ServicePath("a"), ServicePath("a")>>)])])>>),
                     defaultBackend |-> Map([service |-> Named("b")])])])

IngPlain ==
  Map([kind |-> Tok("Ingress"), metadata |-> Meta(Tok("front")),
       spec |-> Map([rules |-> List(<<
                       Map([host |-> Tok("example")]),
                       Map([http |-> Map([paths |-> List(<<ServicePath("a")>>)])])>>)])])

HpaWeb ==
  Map([kind |-> Tok("HorizontalPodAutoscaler"), metadata |-> MetaNs("ns1", Tok("web-hpa")),
       spec |-> Map([scaleTargetRef |-> SaRoleRef("Deployment", "web")])])

RbNs1 ==
  Map([kind |-> Tok("RoleBinding"), metadata |-> MetaNs("ns1", Tok("rb")),
       roleRef |-> SaRoleRef("Role", "r"),
       subjects |-> List(<<SaSubject("n"),
                           Map([kind |-> Tok("ServiceAccount"), name |-> Tok("m"),
                                namespace |-> Tok("ns2")]),
                           Map([kind |-> Tok("User"), name |-> Tok("u")])>>)])

RbNs2 ==
  Map([kind |-> Tok("RoleBinding"), metadata |-> MetaNs("ns2", Tok("rb2")),
       roleRef |-> SaRoleRef("ClusterRole", "cr"),
       subjects |-> List(<<SaSubject("n")>>)])

\* A ClusterRoleBinding whose manifest names the scope "cluster" itself.
CrbCluster ==
  Map([kind |-> Tok("ClusterRoleBinding"), metadata |-> MetaNs("cluster", Tok("crb")),
       roleRef |-> SaRoleRef("ClusterRole", "cr"),
       subjects |-> List(<<SaSubject("n")>>)])

\* A ClusterRoleBinding as kubectl writes it: no namespace.
CrbPlain ==
  Map([kind |-> Tok("ClusterRoleBinding"), metadata |-> Meta(Tok("crb")),
       roleRef |-> SaRoleRef("ClusterRole", "cr"),
       subjects |-> List(<<SaSubject("n")>>)])

ClusterRoleCr ==
  Map([kind |-> Tok("ClusterRole"), metadata |-> Meta(Tok("cr"))])

PvPlain ==
  Map([kind |-> Tok("PersistentVolume"), metadata |-> Meta(Tok("pv-001")),
       spec |-> Map([storageClassName |-> Tok("std")])])

PvcData ==
  Map([kind |-> Tok("PersistentVolumeClaim"), metadata |-> MetaNs("ns1", Tok("data")),
       spec |-> Map([volumeName |-> Tok("pv-001")])])

NetPolWeb ==
  Map([kind |-> Tok("NetworkPolicy"), metadata |-> MetaNs("ns1", Tok("np")),
       spec |-> Map([podSelector |-> Map([
                  matchLabels |-> LabelsWeb,
                  matchExpressions |-> List(<<
                    Map([key |-> Tok("tier"), operator |-> Tok("NotIn"),
                         values |-> List(<<Tok("db")>>)])>>)])])])

\* podSelector: {matchLabels: {}}: a selector with no term
NetPolNoTerms ==
  Map([kind |-> Tok("NetworkPolicy"), metadata |-> MetaNs("ns1", Tok("np-all")),
       spec |-> Map([podSelector |-> Map([matchLabels |-> EmptyMap])])])

PdbWeb ==
  Map([kind |-> Tok("PodDisruptionBudget"), metadata |-> MetaNs("ns1", Tok("pdb")),
       spec |-> Map([selector |-> Map([matchLabels |-> LabelsWeb])])])

\* spec: null
SvcNullSpec ==
  Map([kind |-> Tok("Service"), metadata |-> MetaNs("ns1", Tok("null-spec")),
       spec |-> Null])

\* spec.selector: "app=web"
SvcStrSelector ==
  Map([kind |-> Tok("Service"), metadata |-> MetaNs("ns1", Tok("str-sel")),
       spec |-> Map([selector |-> Tok("app=web")])])

\* env[].valueFrom.configMapKeyRef: null
DeployNullRef ==
  Map([kind |-> Tok("Deployment"), metadata |-> MetaNs("ns1", Tok("null-ref")),
       spec |-> Map([template |-> PodTemplate(EmptyMap,
         Map([containers |-> List(<<
           Map([env |-> List(<<
             Map([valueFrom |-> Map([configMapKeyRef |-> Null])])>>)])>>)]))])])

\* volumes: [null]
DeployNullVol ==
  Map([kind |-> Tok("Deployment"), metadata |-> MetaNs("ns1", Tok("null-vol")),
       spec |-> Map([template |-> PodTemplate(EmptyMap,
         Map([volumes |-> List(<<Null>>)]))])])

\* The documents of the directory, in the order of the walk.
Catalog ==
  <<"DeployWeb",
    "DeployDb",
    "CronNightly",
    "SvcWeb",
    "SvcPlain",
    "IngShop",
    "IngPlain",
    "HpaWeb",
    "RbNs1",
    "RbNs2",
    "CrbCluster",
    "CrbPlain",
    "ClusterRoleCr",
    "PvPlain",
    "PvcData",
    "NetPolWeb",
    "NetPolNoTerms",
    "PdbWeb",
    "SvcNullSpec",
    "SvcStrSelector",
    "DeployNullRef",
    "DeployNullVol">>

Doc(h) ==
  CASE h = "DeployWeb" -> DeployWeb
    [] h = "DeployDb" -> DeployDb
    [] h = "CronNightly" -> CronNightly
    [] h = "SvcWeb" -> SvcWeb
    [] h = "SvcPlain" -> SvcPlain
    [] h = "IngShop" -> IngShop
    [] h = "IngPlain" -> IngPlain
    [] h = "HpaWeb" -> HpaWeb
    [] h = "RbNs1" -> RbNs1
    [] h = "RbNs2" -> RbNs2
    [] h = "CrbCluster" -> CrbCluster
    [] h = "CrbPlain" -> CrbPlain
    [] h = "ClusterRoleCr" -> ClusterRoleCr
    [] h = "PvPlain" -> PvPlain
    [] h = "PvcData" -> PvcData
    [] h = "NetPolWeb" -> NetPolWeb
    [] h = "NetPolNoTerms" -> NetPolNoTerms
    [] h = "PdbWeb" -> PdbWeb
    [] h = "SvcNullSpec" -> SvcNullSpec
    [] h = "SvcStrSelector" -> SvcStrSelector
    [] h = "DeployNullRef" -> DeployNullRef
    [] h = "DeployNullVol" -> DeployNullVol

\* The most documents one directory holds.
MaxDocs == 3

-----------------------------------------------------------------------------
(* Insertion-ordered dict: the keys in the order of their first insertion *)

OdEmpty == [keys |-> <<>>, val |-> EmptyFn]
OdHas(d, k) == k \in DOMAIN d.val
OdGet(d, k, dflt) == IF k \in DOMAIN d.val THEN d.val[k] ELSE dflt
OdSet(d, k, v) ==
  [keys |-> IF k \in DOMAIN d.val THEN d.keys ELSE Append(d.keys, k),
   val |-> Put(d.val, k, v)]

RECURSIVE Flatten(_)
Flatten(ss) == IF Len(ss) = 0 THEN <<>> ELSE Head(ss) \o Flatten(Tail(ss))

\* What a loop over items returns: it raised at some item, or every item's edges.
Collect(rs) ==
  [ok |-> \A i \in 1..Len(rs) : rs[i].ok,
   edges |-> Flatten([i \in 1..Len(rs) |-> rs[i].edges])]

Ok(es) == [ok |-> TRUE, edges |-> es]
Raised == [ok |-> FALSE, edges |-> <<>>]

-----------------------------------------------------------------------------
(* meta, key, labels_of_template, selector_of *)

\* str(v) inside an f-string
Fmt(v) == IF v.t = "str" THEN v.s ELSE <<"None">>

key(kind, ns, name) == Fmt(kind) \o <<"|">> \o Fmt(ns) \o <<"|">> \o Fmt(name)

\* k.split("|", 2) of a string holding at least two separators
FirstSep(s, from) ==
  CHOOSE i \in from..Len(s) : s[i] = "|" /\ \A j \in from..(i - 1) : s[j] # "|"

split2(s) ==
  LET i == FirstSep(s, 1)
      j == FirstSep(s, i + 1)
  IN <<SubSeq(s, 1, i - 1), SubSeq(s, i + 1, j - 1), SubSeq(s, j + 1, Len(s))>>

\* meta(obj): [ok, kind, ns, name]; ok is FALSE when it raises
meta(obj) ==
  LET md == Or(Get(obj, "metadata", EmptyMap), EmptyMap) IN
  [ok |-> md.t = "map",
   kind |-> Get(obj, "kind", Tok("Unknown")),
   ns |-> Get(md, "namespace", Tok("default")),
   name |-> Get(md, "name", Tok("noname"))]

\* Get through a chain of .get(k, {}) calls: RAISE as soon as one is no mapping
GetMap(v, k) == IF IsRaise(v) THEN RAISE ELSE Get(v, k, EmptyMap)

labels_of_template(obj) ==
  Or(GetMap(GetMap(GetMap(GetMap(obj, "spec"), "template"), "metadata"), "labels"),
     EmptyMap)

\* selector_of(obj): the selector, Null for None, or RAISE
selector_of(obj) ==
  LET spec == Get(obj, "spec", EmptyMap) IN
  IF spec.t # "map" THEN RAISE
  ELSE LET s == Get(spec, "selector", Null) IN
       IF s.t = "map" THEN s ELSE Null

-----------------------------------------------------------------------------
(* index_resources *)

workload_kinds ==
  {Tok("Deployment"), Tok("StatefulSet"), Tok("DaemonSet"), Tok("Job"), Tok("CronJob")}

Hashable(v) == v.t \in {"str", "null"}

\* line 133: by_kind_ns_name[kind][ns][name] = d
by_insert(b, kind, ns, name, d) ==
  LET ns_map == OdGet(b, kind, OdEmpty)
      name_map == OdGet(ns_map, ns, OdEmpty)
  IN OdSet(b, kind, OdSet(ns_map, ns, OdSet(name_map, name, d)))

\* line 134: the test raises when the kind is no workload kind and spec is no mapping
workload_test_raises(kind, d) ==
  /\ kind \notin workload_kinds
  /\ IsRaise(Get(Get(d, "spec", EmptyMap), "template", Null))

\* lines 131-135: [ok, by] after the documents from the i-th on
RECURSIVE index_loop(_, _, _)
index_loop(ds, i, b) ==
  IF i > Len(ds) THEN [ok |-> TRUE, by |-> b]
  ELSE LET m == meta(Doc(ds[i])) IN
       IF ~m.ok THEN [ok |-> FALSE, by |-> b]
       ELSE IF ~(Hashable(m.kind) /\ Hashable(m.ns) /\ Hashable(m.name))
                 \/ workload_test_raises(m.kind, Doc(ds[i]))
            THEN [ok |-> FALSE, by |-> b]
            ELSE index_loop(ds, i + 1, by_insert(b, m.kind, m.ns, m.name, ds[i]))

\* The (kind, ns, name, obj) of the index in the order lines 139-141 visit them.
Entries(b) ==
  Flatten([i \in 1..Len(b.keys) |->
    LET kind == b.keys[i]
        ns_map == b.val[kind]
    IN Flatten([j \in 1..Len(ns_map.keys) |->
         LET ns == ns_map.keys[j]
             name_map == ns_map.val[ns]
         IN [n \in 1..Len(name_map.keys) |->
              [kind |-> kind, ns |-> ns, name |-> name_map.keys[n],
               obj |-> Doc(name_map.val[name_map.keys[n]])]]])])

\* lines 142-143 for one entry: does it have a template ("True"/"False"/"Raise")
has_template(obj) == In3(Tok("template"), Get(obj, "spec", EmptyMap))

\* lines 138-143: [ok, pt] after the entries from the i-th on
RECURSIVE template_loop(_, _, _)
template_loop(es, i, pt) ==
  IF i > Len(es) THEN [ok |-> TRUE, pt |-> pt]
  ELSE LET e == es[i]
           h == has_template(e.obj)
       IN IF h = "Raise" THEN [ok |-> FALSE, pt |-> pt]
          ELSE IF h = "False" THEN template_loop(es, i + 1, pt)
          ELSE LET ls == labels_of_template(e.obj) IN
               IF IsRaise(ls) THEN [ok |-> FALSE, pt |-> pt]
               ELSE template_loop(es, i + 1,
                      OdSet(pt, key(e.kind, e.ns, e.name), ls))

\* index_resources(docs): [ok, by, pod_templates]
index_resources(ds) ==
  LET r == index_loop(ds, 1, OdEmpty) IN
  IF ~r.ok THEN [ok |-> FALSE, by |-> OdEmpty, pod_templates |-> OdEmpty]
  ELSE LET t == template_loop(Entries(r.by), 1, OdEmpty) IN
       [ok |-> t.ok, by |-> r.by, pod_templates |-> t.pt]

\* by.get(kind, {}).get(ns, {}).items(): the (name, obj) pairs in insertion order
Items(b, kind, ns) ==
  LET name_map == OdGet(OdGet(b, Tok(kind), OdEmpty), ns, OdEmpty) IN
  [n \in 1..Len(name_map.keys) |->
    [name |-> name_map.keys[n], obj |-> Doc(name_map.val[name_map.keys[n]])]]

-----------------------------------------------------------------------------
(* Relationship extraction.  An extractor returns [ok, edges]: ok is FALSE  *)
(* when it raises, and then main never sees its edges.  An edge is          *)
(* <<from, to, label>>, from and to being the strings the f-strings write.  *)
(* Every field a loop iterates is a list, null or absent in the Catalog;    *)
(* a loop over any other value is taken to raise at its first item.         *)

\* for x in (v or []): the items, or ok = FALSE
Iter(v) ==
  LET w == Or(v, EmptyList) IN
  IF w.t = "list" THEN [ok |-> TRUE, l |-> w.l] ELSE [ok |-> FALSE, l |-> <<>>]

\* v[k] after a successful "k in v"
Subscript(v, k) == IF v.t = "map" /\ k \in DOMAIN v.m THEN v.m[k] ELSE RAISE

\* f"{kind}|{ns}|{name}" with the kind a literal
fkey(kind, ns, name) == <<kind, "|">> \o Fmt(ns) \o <<"|">> \o Fmt(name)

\* line 160: the service name of one path
path_service(p) ==
  Get(Or(Get(Or(Get(Or(p, EmptyMap), "backend", Null), EmptyMap), "service", Null),
         EmptyMap), "name", Null)

\* lines 158-162 for one rule: [ok, l], l the truthy service names in path order
rule_backends(r) ==
  LET paths == Iter(Get(Or(Get(Or(r, EmptyMap), "http", Null), EmptyMap), "paths", Null))
      svcs == [i \in 1..Len(paths.l) |-> path_service(paths.l[i])]
  IN [ok |-> paths.ok /\ \A i \in 1..Len(svcs) : ~IsRaise(svcs[i]),
      l |-> Flatten([i \in 1..Len(svcs) |->
                      IF Truthy(svcs[i]) THEN <<svcs[i]>> ELSE <<>>])]

\* lines 163-166: [ok, l] for the default backend
default_backends(default_backend) ==
  IF IsRaise(default_backend) THEN [ok |-> FALSE, l |-> <<>>]
  ELSE IF ~Truthy(default_backend) THEN [ok |-> TRUE, l |-> <<>>]
  ELSE LET svc == Get(Or(Get(default_backend, "service", Null), EmptyMap), "name", Null)
       IN [ok |-> ~IsRaise(svc), l |-> IF Truthy(svc) THEN <<svc>> ELSE <<>>]

\* lines 153-166: [ok, l], the list "backends" of one Ingress
backends_of(ing) ==
  LET spec == Or(Get(ing, "spec", EmptyMap), EmptyMap)
      rules == Iter(Get(spec, "rules", EmptyList))
      rs == [i \in 1..Len(rules.l) |-> rule_backends(rules.l[i])]
      db == default_backends(Get(spec, "defaultBackend", EmptyMap))
      l == Flatten([i \in 1..Len(rs) |-> rs[i].l]) \o db.l
  IN [ok |-> /\ rules.ok /\ db.ok
             /\ \A i \in 1..Len(rs) : rs[i].ok
             /\ \A i \in 1..Len(l) : Hashable(l[i]),
      l |-> l]

\* The orders in which a set can be iterated.
Perms(S) ==
  {p \in [1..Cardinality(S) -> S] : \A i, j \in 1..Cardinality(S) : p[i] = p[j] => i = j}

\* lines 167-169: one edge per member of set(backends), in the order "order"
ingress_edges(ns, name, order) ==
  [i \in 1..Len(order) |->
     <<fkey("Ingress", ns, name), fkey("Service", ns, order[i]), "routes to">>]

\* The orders set(backends) may have for each Ingress of the namespace: hashing
\* of str is seeded per process, so every order of the distinct names is possible.
ingress_orders(b, ns) ==
  LET items == Items(b, "Ingress", ns)
      sets == [n \in 1..Len(items) |-> Range(backends_of(items[n].obj).l)]
  IN {o \in [1..Len(items) -> UNION {Perms(sets[n]) : n \in 1..Len(items)}] :
        \A n \in 1..Len(items) : o[n] \in Perms(sets[n])}

\* rels_from_ingress looping over the list "backends" instead of set(backends).
rels_from_ingress_list(b, ns, order) ==
  LET items == Items(b, "Ingress", ns) IN
  Collect([n \in 1..Len(items) |->
     IF backends_of(items[n].obj).ok
     THEN Ok(ingress_edges(ns, items[n].name, backends_of(items[n].obj).l))
     ELSE Raised])

\* rels_from_ingress(by, ns), with set(backends) iterated in the orders "order"
rels_from_ingress(b, ns, order) ==
  LET items == Items(b, "Ingress", ns) IN
  Collect([n \in 1..Len(items) |->
     IF backends_of(items[n].obj).ok
     THEN Ok(ingress_edges(ns, items[n].name, order[n]))
     ELSE Raised])

\* select_item without the test k_ns != ns, the target being the key itself.
select_item_any_ns(from, ns, pt, k, selector, label) ==
  LET o == match_selector_outcome(pt.val[k], selector) IN
  IF o = "Raise" THEN Raised
  ELSE IF o = "True" THEN Ok(<< <<from, k, label>> >>)
  ELSE Ok(<<>>)

\* lines 178-184, 283-289, 296-302: the loop over pod_templates of one selecting
\* resource "from" of the namespace, with the selector handed to match_selector
select_item(from, ns, pt, k, selector, label) ==
  LET sp == split2(k) IN
  IF Str(sp[2]) # ns THEN Ok(<<>>)
  ELSE LET o == match_selector_outcome(pt.val[k], selector) IN
       IF o = "Raise" THEN Raised
       ELSE IF o = "True"
            THEN Ok(<< <<from, sp[1] \o <<"|">> \o Fmt(ns) \o <<"|">> \o sp[3], label>> >>)
            ELSE Ok(<<>>)

select_targets(from, ns, pt, selector, label) ==
  Collect([i \in 1..Len(pt.keys) |-> select_item(from, ns, pt, pt.keys[i], selector, label)])

\* lines 175-184 for one Service
service_item(ns, pt, name, svc) ==
  LET sel == Or(Get(Get(svc, "spec", EmptyMap), "selector", Null), EmptyMap) IN
  IF IsRaise(sel) THEN Raised
  ELSE IF ~Truthy(sel) THEN Ok(<<>>)
  ELSE select_targets(fkey("Service", ns, name), ns, pt,
                      Map([matchLabels |-> sel]), "selects")

rels_service_to_workloads(b, ns, pt) ==
  LET items == Items(b, "Service", ns) IN
  Collect([n \in 1..Len(items) |-> service_item(ns, pt, items[n].name, items[n].obj)])

\* lines 190-194 for one HorizontalPodAutoscaler
hpa_item(ns, name, hpa) ==
  LET ref == Or(Get(Or(Get(hpa, "spec", EmptyMap), EmptyMap), "scaleTargetRef", EmptyMap),
                EmptyMap)
      to_kind == Get(ref, "kind", Null)
      to_name == Get(ref, "name", Null)
  IN IF IsRaise(to_kind) THEN Raised
     ELSE IF Truthy(to_kind) /\ Truthy(to_name)
          THEN Ok(<< <<fkey("HorizontalPodAutoscaler", ns, name),
                       key(to_kind, ns, to_name), "scales">> >>)
          ELSE Ok(<<>>)

rels_hpa(b, ns) ==
  LET items == Items(b, "HorizontalPodAutoscaler", ns) IN
  Collect([n \in 1..Len(items) |-> hpa_item(ns, items[n].name, items[n].obj)])

\* line 201: the pod specification of a workload
podspec_of(kind, wl) ==
  IF kind # "CronJob"
  THEN GetMap(Or(Get(Or(Get(wl, "spec", EmptyMap), EmptyMap), "template", EmptyMap),
                 EmptyMap), "spec")
  ELSE GetMap(GetMap(GetMap(
         Or(Get(Or(Get(wl, "spec", EmptyMap), EmptyMap), "jobTemplate", EmptyMap), EmptyMap),
         "spec"), "template"), "spec")

\* lines 206-217: one reference of one volume: if field in vol, name (vol[field] or {}).get(nm)
vol_ref(from, ns, vol, field, nm, tkind, label) ==
  LET h == In3(Tok(field), vol) IN
  IF h = "Raise" THEN Raised
  ELSE IF h = "False" THEN Ok(<<>>)
  ELSE LET n == Get(Or(Subscript(vol, field), EmptyMap), nm, Null) IN
       IF IsRaise(n) THEN Raised
       ELSE IF Truthy(n) THEN Ok(<< <<from, fkey(tkind, ns, n), label>> >>)
       ELSE Ok(<<>>)

vol_item(from, ns, vol) ==
  Collect(<<vol_ref(from, ns, vol, "configMap", "name", "ConfigMap", "mounts"),
            vol_ref(from, ns, vol, "secret", "secretName", "Secret", "mounts"),
            vol_ref(from, ns, vol, "persistentVolumeClaim", "claimName",
                    "PersistentVolumeClaim", "uses")>>)

\* lines 222-229 and 231-234: if field in holder, name holder[field].get("name")
key_ref(from, ns, holder, field, tkind) ==
  LET h == In3(Tok(field), holder) IN
  IF h = "Raise" THEN Raised
  ELSE IF h = "False" THEN Ok(<<>>)
  ELSE LET n == Get(Subscript(holder, field), "name", Null) IN
       IF IsRaise(n) THEN Raised
       ELSE IF Truthy(n) THEN Ok(<< <<from, fkey(tkind, ns, n), "reads">> >>)
       ELSE Ok(<<>>)

env_item(from, ns, env) ==
  LET value_from == Or(Get(env, "valueFrom", Null), EmptyMap) IN
  IF IsRaise(value_from) THEN Raised
  ELSE Collect(<<key_ref(from, ns, value_from, "configMapKeyRef", "ConfigMap"),
                 key_ref(from, ns, value_from, "secretKeyRef", "Secret")>>)

envfrom_item(from, ns, eff) ==
  Collect(<<key_ref(from, ns, eff, "configMapRef", "ConfigMap"),
            key_ref(from, ns, eff, "secretRef", "Secret")>>)

\* lines 219-234 for one container
container_item(from, ns, c) ==
  LET envs == Iter(Get(c, "env", EmptyList))
      effs == Iter(Get(c, "envFrom", EmptyList))
  IN IF ~envs.ok \/ ~effs.ok THEN Raised
     ELSE Collect(<<Collect([i \in 1..Len(envs.l) |-> env_item(from, ns, envs.l[i])]),
                    Collect([i \in 1..Len(effs.l) |-> envfrom_item(from, ns, effs.l[i])])>>)

\* lines 201-238 for one workload
workload_item(kind, ns, name, wl) ==
  LET podspec == podspec_of(kind, wl)
      from == fkey(kind, ns, name)
  IN IF IsRaise(podspec) THEN Raised
     ELSE IF ~Truthy(podspec) THEN Ok(<<>>)
     ELSE
       LET vols == Iter(Get(podspec, "volumes", EmptyList))
           cs == Iter(Get(podspec, "containers", EmptyList))
           sa == Get(podspec, "serviceAccountName", Null)
       IN IF ~vols.ok \/ ~cs.ok \/ IsRaise(sa) THEN Raised
          ELSE Collect(<<
                 Collect([i \in 1..Len(vols.l) |-> vol_item(from, ns, vols.l[i])]),
                 Collect([i \in 1..Len(cs.l) |-> container_item(from, ns, cs.l[i])]),
                 IF Truthy(sa)
                 THEN Ok(<< <<from, fkey("ServiceAccount", ns, sa), "runs as">> >>)
                 ELSE Ok(<<>>)>>)

volume_kinds == <<"Deployment", "StatefulSet", "DaemonSet", "Job", "CronJob">>

rels_volumes_env(b, ns) ==
  Collect([ki \in 1..Len(volume_kinds) |->
    LET items == Items(b, volume_kinds[ki], ns) IN
    Collect([n \in 1..Len(items) |->
      workload_item(volume_kinds[ki], ns, items[n].name, items[n].obj)])])

\* lines 250-255 and 262-267: the "to" edges of one binding's subjects
subject_item(from, ns, sub) ==
  LET kind == Get(sub, "kind", Null)
      sa_ns == Get(sub, "namespace", ns)
      sa_name == Get(sub, "name", Null)
  IN IF IsRaise(kind) THEN Raised
     ELSE IF kind = Tok("ServiceAccount") /\ Truthy(sa_name)
          THEN Ok(<< <<from, key(Tok("ServiceAccount"), sa_ns, sa_name), "to">> >>)
          ELSE Ok(<<>>)

subject_edges(from, ns, binding) ==
  LET subs == Iter(Get(binding, "subjects", EmptyList)) IN
  IF ~subs.ok THEN Raised
  ELSE Collect([i \in 1..Len(subs.l) |-> subject_item(from, ns, subs.l[i])])

\* lines 245-255 for one RoleBinding
rolebinding_item(ns, name, rb) ==
  LET role_ref == Or(Get(rb, "roleRef", Null), EmptyMap)
      role_kind == Get(role_ref, "kind", Null)
      role_name == Get(role_ref, "name", Null)
      from == fkey("RoleBinding", ns, name)
  IN IF IsRaise(role_kind) THEN Raised
     ELSE Collect(<<
            IF Truthy(role_kind) /\ Truthy(role_name)
            THEN Ok(<< <<from,
                         IF role_kind = Tok("Role")
                         THEN key(role_kind, ns, role_name)
                         ELSE key(role_kind, Tok("cluster"), role_name),
                         "binds">> >>)
            ELSE Ok(<<>>),
            subject_edges(from, ns, rb)>>)

\* lines 258-267 for one ClusterRoleBinding, in the call for the namespace ns
clusterrolebinding_item(ns, name, crb) ==
  LET role_ref == Or(Get(crb, "roleRef", Null), EmptyMap)
      role_name == Get(role_ref, "name", Null)
      from == fkey("ClusterRoleBinding", Tok("cluster"), name)
  IN IF IsRaise(role_name) THEN Raised
     ELSE Collect(<<
            IF Truthy(role_name)
            THEN Ok(<< <<from, fkey("ClusterRole", Tok("cluster"), role_name), "binds">> >>)
            ELSE Ok(<<>>),
            subject_edges(from, ns, crb)>>)

rels_sa_rbac(b, ns) ==
  LET rbs == Items(b, "RoleBinding", ns)
      crbs == Items(b, "ClusterRoleBinding", Tok("cluster"))
  IN Collect(<<
       Collect([n \in 1..Len(rbs) |-> rolebinding_item(ns, rbs[n].name, rbs[n].obj)]),
       Collect([n \in 1..Len(crbs) |->
                 clusterrolebinding_item(ns, crbs[n].name, crbs[n].obj)])>>)

\* lines 274-276 for one PersistentVolumeClaim
pvc_item(ns, name, pvc) ==
  LET vol == Get(Or(Get(pvc, "spec", Null), EmptyMap), "volumeName", Null) IN
  IF IsRaise(vol) THEN Raised
  ELSE IF Truthy(vol)
       THEN Ok(<< <<fkey("PersistentVolumeClaim", ns, name),
                    fkey("PersistentVolume", Tok("cluster"), vol), "bound to">> >>)
       ELSE Ok(<<>>)

rels_pvc_pv(b) ==
  LET ns_map == OdGet(b, Tok("PersistentVolumeClaim"), OdEmpty) IN
  Collect([j \in 1..Len(ns_map.keys) |->
    LET items == Items(b, "PersistentVolumeClaim", ns_map.keys[j]) IN
    Collect([n \in 1..Len(items) |->
      pvc_item(ns_map.keys[j], items[n].name, items[n].obj)])])

\* lines 282-289 for one NetworkPolicy
networkpolicy_item(ns, pt, name, np) ==
  LET sel == Or(Get(Or(Get(np, "spec", Null), EmptyMap), "podSelector", Null), EmptyMap) IN
  IF IsRaise(sel) THEN Raised
  ELSE select_targets(fkey("NetworkPolicy", ns, name), ns, pt, sel, "applies")

rels_networkpolicy(b, ns, pt) ==
  LET items == Items(b, "NetworkPolicy", ns) IN
  Collect([n \in 1..Len(items) |-> networkpolicy_item(ns, pt, items[n].name, items[n].obj)])

\* lines 295-302 for one PodDisruptionBudget
pdb_item(ns, pt, name, pdb) ==
  LET sel == Or(selector_of(pdb), EmptyMap) IN
  IF IsRaise(sel) THEN Raised
  ELSE select_targets(fkey("PodDisruptionBudget", ns, name), ns, pt, sel, "protects")

rels_pdb(b, ns, pt) ==
  LET items == Items(b, "PodDisruptionBudget", ns) IN
  Collect([n \in 1..Len(items) |-> pdb_item(ns, pt, items[n].name, items[n].obj)])

-----------------------------------------------------------------------------
(* main, lines 375-379: the namespaces to visit *)

\* The tokens of the namespaces of the Catalog, in the order of Python's str "<".
TokOrder == <<"cluster", "default", "ns1", "ns2">>
TokRank(x) == CHOOSE i \in 1..Len(TokOrder) : TokOrder[i] = x

RECURSIVE StrLess(_, _)
StrLess(a, c) ==
  IF Len(c) = 0 THEN FALSE
  ELSE IF Len(a) = 0 THEN TRUE
  ELSE IF Head(a) = Head(c) THEN StrLess(Tail(a), Tail(c))
  ELSE TokRank(Head(a)) < TokRank(Head(c))

all_namespaces(b) ==
  UNION {Range(b.val[kind].keys) : kind \in DOMAIN b.val}

\* sorted([n for n in all_namespaces if n != "cluster"])
sorted_namespaces(b) ==
  LET S == {n \in all_namespaces(b) : n # Tok("cluster")} IN
  CHOOSE q \in [1..Cardinality(S) -> S] :
    \A i, j \in 1..Cardinality(S) : i < j => StrLess(q[i].s, q[j].s)

-----------------------------------------------------------------------------
(* main *)

Init ==
  /\ docs = <<>>
  /\ cursor = 1
  /\ pc = "read"
  /\ by = OdEmpty
  /\ pod_templates = OdEmpty
  /\ nsq = <<>>
  /\ edges = <<>>
  /\ run = 1
  /\ first_edges = <<>>
  /\ h_labels = EmptyMap
  /\ h_selector = EmptyMap
  /\ h_prev = EmptyMap
  /\ h_step = "off"
  /\ h_res = "False"

\* read_yaml_documents, lines 43-45: one more document of the walk
LoadDoc ==
  /\ pc = "read"
  /\ run = 1
  /\ Len(docs) < MaxDocs
  /\ \E i \in cursor..Len(Catalog) :
       /\ docs' = Append(docs, Catalog[i])
       /\ cursor' = i
  /\ UNCHANGED <<pc, by, pod_templates, nsq, edges, run, first_edges>>
  /\ UNCHANGED h_vars

\* main, lines 368-370: no documents
NoDocs ==
  /\ pc = "read"
  /\ docs = <<>>
  /\ pc' = "exit2"
  /\ UNCHANGED <<docs, cursor, by, pod_templates, nsq, edges, run, first_edges>>
  /\ UNCHANGED h_vars

\* After an extractor: the next one, or the traceback.
Step(r, next) ==
  IF r.ok
  THEN /\ edges' = edges \o r.edges
       /\ pc' = next
  ELSE /\ edges' = edges
       /\ pc' = "raised"

\* main, lines 371-379: index_resources and the namespaces to visit
IndexResources ==
  /\ pc = "read"
  /\ docs # <<>>
  /\ LET r == index_resources(docs) IN
     IF r.ok
     THEN /\ by' = r.by
          /\ pod_templates' = r.pod_templates
          /\ nsq' = sorted_namespaces(r.by)
          /\ pc' = IF sorted_namespaces(r.by) = <<>> THEN "pvc_pv" ELSE "ingress"
     ELSE /\ pc' = "raised"
          /\ UNCHANGED <<by, pod_templates, nsq>>
  /\ UNCHANGED <<docs, cursor, edges, run, first_edges>>
  /\ UNCHANGED h_vars

\* main, line 380
RelsFromIngress ==
  /\ pc = "ingress"
  /\ \E o \in ingress_orders(by, Head(nsq)) :
       Step(rels_from_ingress(by, Head(nsq), o), "service")
  /\ UNCHANGED <<docs, cursor, by, pod_templates, nsq, run, first_edges>>
  /\ UNCHANGED h_vars

\* main, line 381
RelsServiceToWorkloads ==
  /\ pc = "service"
  /\ Step(rels_service_to_workloads(by, Head(nsq), pod_templates), "hpa")
  /\ UNCHANGED <<docs, cursor, by, pod_templates, nsq, run, first_edges>>
  /\ UNCHANGED h_vars

\* main, line 382
RelsHpa ==
  /\ pc = "hpa"
  /\ Step(rels_hpa(by, Head(nsq)), "volumes_env")
  /\ UNCHANGED <<docs, cursor, by, pod_templates, nsq, run, first_edges>>
  /\ UNCHANGED h_vars

\* main, line 383
RelsVolumesEnv ==
  /\ pc = "volumes_env"
  /\ Step(rels_volumes_env(by, Head(nsq)), "sa_rbac")
  /\ UNCHANGED <<docs, cursor, by, pod_templates, nsq, run, first_edges>>
  /\ UNCHANGED h_vars

\* main, line 384
RelsSaRbac ==
  /\ pc = "sa_rbac"
  /\ Step(rels_sa_rbac(by, Head(nsq)), "networkpolicy")
  /\ UNCHANGED <<docs, cursor, by, pod_templates, nsq, run, first_edges>>
  /\ UNCHANGED h_vars

\* main, line 385
RelsNetworkPolicy ==
  /\ pc = "networkpolicy"
  /\ Step(rels_networkpolicy(by, Head(nsq), pod_templates), "pdb")
  /\ UNCHANGED <<docs, cursor, by, pod_templates, nsq, run, first_edges>>
  /\ UNCHANGED h_vars

\* main, line 386, and the next namespace of the loop of line 379
RelsPdb ==
  /\ pc = "pdb"
  /\ Step(rels_pdb(by, Head(nsq), pod_templates),
          IF Tail(nsq) = <<>> THEN "pvc_pv" ELSE "ingress")
  /\ nsq' = Tail(nsq)
  /\ UNCHANGED <<docs, cursor, by, pod_templates, run, first_edges>>
  /\ UNCHANGED h_vars

\* main, line 387
RelsPvcPv ==
  /\ pc = "pvc_pv"
  /\ Step(rels_pvc_pv(by), "done")
  /\ UNCHANGED <<docs, cursor, by, pod_templates, nsq, run, first_edges>>
  /\ UNCHANGED h_vars

\* The program is run again on the same directory.
Rerun ==
  /\ pc = "done"
  /\ run = 1
  /\ run' = 2
  /\ first_edges' = edges
  /\ pc' = "read"
  /\ by' = OdEmpty
  /\ pod_templates' = OdEmpty
  /\ nsq' = <<>>
  /\ edges' = <<>>
  /\ UNCHANGED <<docs, cursor>>
  /\ UNCHANGED h_vars

Next ==
  \/ LoadDoc
  \/ NoDocs
  \/ IndexResources
  \/ RelsFromIngress
  \/ RelsServiceToWorkloads
  \/ RelsHpa
  \/ RelsVolumesEnv
  \/ RelsSaRbac
  \/ RelsNetworkPolicy
  \/ RelsPdb
  \/ RelsPvcPv
  \/ Rerun

Spec == Init /\ [][Next]_vars

-----------------------------------------------------------------------------
(* match_selector on its own: a label set L, and a selector built term by   *)
(* term from the empty mapping; every step applies match_selector.          *)

Keys == {"app", "tier"}
Vals == {"web", "db"}
LabelSets == {Map(f) : f \in UNION {[D -> {Tok(v) : v \in Vals}] : D \in SUBSET Keys}}
ValueLists == {<<>>, <<Tok("web")>>, <<Tok("web"), Tok("db")>>}

\* An expression term: one of the four operators, or one match_selector skips.
ExprTerms ==
  {Map([key |-> Tok(k), operator |-> Tok(op), values |-> List(vs)]) :
     k \in Keys, op \in {"In", "NotIn", "Gt"}, vs \in ValueLists}
  \cup {Map([key |-> Tok(k), operator |-> Tok(op)]) :
     k \in Keys, op \in {"Exists", "DoesNotExist"}}

\* The most terms of a selector.
MaxTerms == 2

equality_terms(selector) == Or(Get(selector, "matchLabels", EmptyMap), EmptyMap)
expression_terms(selector) == Or(Get(selector, "matchExpressions", EmptyList), EmptyList)
NumTerms(selector) ==
  Cardinality(DOMAIN equality_terms(selector).m) + Len(expression_terms(selector).l)

SelInit ==
  /\ docs = <<>>
  /\ cursor = 1
  /\ pc = "read"
  /\ by = OdEmpty
  /\ pod_templates = OdEmpty
  /\ nsq = <<>>
  /\ edges = <<>>
  /\ run = 1
  /\ first_edges = <<>>
  /\ h_labels \in LabelSets
  /\ h_selector = EmptyMap
  /\ h_prev = EmptyMap
  /\ h_step = "init"
  /\ h_res = match_selector_outcome(h_labels, EmptyMap)

\* One step of the harness: the selector becomes s, and match_selector is applied.
Apply(s, step) ==
  /\ h_selector' = s
  /\ h_prev' = h_selector
  /\ h_step' = step
  /\ h_res' = match_selector_outcome(h_labels, s)
  /\ UNCHANGED h_labels
  /\ UNCHANGED pipe_vars

\* matchLabels: {} or matchExpressions: [] is written into the selector: no term
AddEmptyPart ==
  /\ \E part \in {"matchLabels", "matchExpressions"} :
       /\ part \notin DOMAIN h_selector.m
       /\ Apply(Map(Put(h_selector.m, part,
                        IF part = "matchLabels" THEN EmptyMap ELSE EmptyList)), "part")

\* One more equality term
AddEqualityTerm ==
  /\ NumTerms(h_selector) < MaxTerms
  /\ \E k \in Keys, v \in Vals :
       /\ k \notin DOMAIN equality_terms(h_selector).m
       /\ Apply(Map(Put(h_selector.m, "matchLabels",
                        Map(Put(equality_terms(h_selector).m, k, Tok(v))))), "term")

\* One more expression term
AddExpressionTerm ==
  /\ NumTerms(h_selector) < MaxTerms
  /\ \E e \in ExprTerms :
       Apply(Map(Put(h_selector.m, "matchExpressions",
                     List(Append(expression_terms(h_selector).l, e)))), "term")

SelNext ==
  \/ AddEmptyPart
  \/ AddEqualityTerm
  \/ AddExpressionTerm

SelSpec == SelInit /\ [][SelNext]_vars

-----------------------------------------------------------------------------
(* The claims *)

\* What the claims read off an edge and off the index.
EdgeSet == Range(edges)
NsOf(k) == split2(k)[2]
Indexed == pc \notin {"read", "raised", "exit2"}
Count(e) == Cardinality({i \in 1..Len(edges) : edges[i] = e})

\* C1: match_selector is false for every label set and every selector that has
\* no equality term and no expression term ({}, {matchLabels: {}},
\* {matchExpressions: []} and both).
C1_TermlessSelectorNeverMatches ==
  NumTerms(h_selector) = 0 => h_res # "True"

\* C2, as claimed: whenever a term is added to a selector S, giving S', a label
\* set that S' matches is matched by S too; for every S, the termless one included.
C2_AddingTermNeverGrows ==
  h_step = "term" => (h_res = "True" => match_selector(h_labels, h_prev))

\* C2, amended: whenever a term is added to a selector S that has at least one
\* term, giving S', a label set that S' matches is matched by S too.
C2_AddingTermToTermedNeverGrows ==
  (h_step = "term" /\ NumTerms(h_prev) >= 1) =>
    (h_res = "True" => match_selector(h_labels, h_prev))

\* C2's case: a term was added to a selector with a term, and the result matches.
C2_Witness ==
  /\ h_step = "term"
  /\ NumTerms(h_prev) >= 1
  /\ h_res = "True"
  /\ NumTerms(h_selector) = NumTerms(h_prev) + 1

ClusterKinds == {Tok("ClusterRole"), Tok("ClusterRoleBinding"), Tok("PersistentVolume")}

\* C3: after index_resources every ClusterRole, ClusterRoleBinding and
\* PersistentVolume is stored under the namespace key "cluster".
C3_ClusterKindsUnderCluster ==
  Indexed => \A e \in Range(Entries(by)) :
               e.kind \in ClusterKinds => e.ns = Tok("cluster")

\* C4: index_resources and the extractors never raise, whatever field of a
\* document is absent, null or of the wrong type.
C4_NeverRaises == pc # "raised"

\* C5: the second run of the pipeline on the same documents ends with the edge
\* list of the first run, same members in the same order.
C5_SecondRunSameEdges ==
  (run = 2 /\ pc = "done") => edges = first_edges

\* spec.jobTemplate.spec.template.metadata.labels of a CronJob
cronjob_labels(obj) ==
  Or(GetMap(GetMap(GetMap(GetMap(GetMap(obj, "spec"), "jobTemplate"), "spec"),
                   "template"), "metadata"), EmptyMap)

\* C6: after index_resources a CronJob whose nested template carries the labels
\* L has the entry L in the pod-template index.
C6_CronJobHasTemplateEntry ==
  Indexed => \A e \in Range(Entries(by)) :
    (e.kind = Tok("CronJob") /\ "labels" \in DOMAIN cronjob_labels(e.obj).m) =>
      /\ OdHas(pod_templates, key(e.kind, e.ns, e.name))
      /\ OdGet(pod_templates, key(e.kind, e.ns, e.name), Null)
           = cronjob_labels(e.obj).m["labels"]

\* The subjects of kind ServiceAccount of a binding that carry the name n.
SaSubjects(binding, n) ==
  {s \in Range(Iter(Get(binding, "subjects", EmptyList)).l) :
     Get(s, "kind", Null) = Tok("ServiceAccount") /\ Fmt(Get(s, "name", Null)) = n}

\* The bindings of the index: their edge source, their namespace, their document.
Bindings ==
  {[from |-> key(e.kind, e.ns, e.name), ns |-> Fmt(e.ns), obj |-> e.obj] :
     e \in {x \in Range(Entries(by)) :
              x.kind \in {Tok("RoleBinding"), Tok("ClusterRoleBinding")}}}

\* C7: a "to" edge from a binding to a ServiceAccount n that the binding names
\* without a namespace targets the binding's own namespace.
C7_SubjectDefaultsToBindingNamespace ==
  \A e \in EdgeSet : \A b \in Bindings :
    (/\ e[3] = "to"
     /\ e[1] = b.from
     /\ SaSubjects(b.obj, split2(e[2])[3]) # {}
     /\ \A s \in SaSubjects(b.obj, split2(e[2])[3]) : "namespace" \notin DOMAIN s.m)
    => NsOf(e[2]) = b.ns

\* C8: in the edge list of main every ClusterRoleBinding with a roleRef name r
\* has exactly one "binds" edge to ClusterRole|cluster|r.
C8_OneBindsEdgePerClusterRoleBinding ==
  pc = "done" => \A e \in Range(Entries(by)) :
    (e.kind = Tok("ClusterRoleBinding")
       /\ Truthy(Get(Or(Get(e.obj, "roleRef", Null), EmptyMap), "name", Null))) =>
      Count(<<fkey("ClusterRoleBinding", Tok("cluster"), e.name),
              fkey("ClusterRole", Tok("cluster"),
                   Get(Or(Get(e.obj, "roleRef", Null), EmptyMap), "name", Null)),
              "binds">>) = 1

NamespacedLabels ==
  {"routes to", "selects", "scales", "mounts", "reads", "uses", "runs as",
   "applies", "protects"}

\* C9: an edge of a namespaced family joins two triples of the same namespace;
\* an edge that joins two scopes is a "to" edge, a "bound to" edge, or a "binds"
\* edge to the cluster scope.
C9_NamespaceIsolation ==
  \A e \in EdgeSet :
    /\ e[3] \in NamespacedLabels => NsOf(e[1]) = NsOf(e[2])
    /\ NsOf(e[1]) # NsOf(e[2]) =>
         \/ e[3] \in {"to", "bound to"}
         \/ e[3] = "binds" /\ NsOf(e[2]) = <<"cluster">>

\* C9's case: a Service selects a workload of its namespace while a template of
\* another namespace carries the labels it selects.
C9_Witness ==
  /\ pc = "done"
  /\ \E e \in EdgeSet :
       /\ e[3] = "selects"
       /\ \E k \in DOMAIN pod_templates.val :
            /\ NsOf(k) # NsOf(e[1])
            /\ match_selector(pod_templates.val[k], Map([matchLabels |-> LabelsWeb]))

\* The service names an Ingress references: every truthy
\* rules[].http.paths[].backend.service.name and defaultBackend.service.name.
referenced_services(ing) ==
  LET spec == ing.m["spec"].m
      rules == IF "rules" \in DOMAIN spec THEN spec["rules"].l ELSE <<>>
      paths(r) == IF "http" \in DOMAIN r.m THEN r.m["http"].m["paths"].l ELSE <<>>
  IN {p.m["backend"].m["service"].m["name"] :
        p \in UNION {Range(paths(r)) : r \in Range(rules)}}
     \cup (IF "defaultBackend" \in DOMAIN spec
           THEN {spec["defaultBackend"].m["service"].m["name"]} ELSE {})

Ingresses == {e \in Range(Entries(by)) : e.kind = Tok("Ingress") /\ e.ns # Tok("cluster")}

\* C10: an Ingress has exactly one "routes to" edge for each distinct service
\* name it references, and no other "routes to" edge.
C10_OneRouteEdgePerDistinctService ==
  pc = "done" => \A i \in Ingresses :
    /\ \A svc \in referenced_services(i.obj) :
         Count(<<fkey("Ingress", i.ns, i.name), fkey("Service", i.ns, svc), "routes to">>) = 1
    /\ Cardinality({n \in 1..Len(edges) :
                      edges[n][1] = fkey("Ingress", i.ns, i.name)
                      /\ edges[n][3] = "routes to"})
         = Cardinality(referenced_services(i.obj))

\* C10's case: an Ingress that references one service twice and another once.
C10_Witness ==
  /\ pc = "done"
  /\ \E i \in Ingresses :
       /\ Len(backends_of(i.obj).l) > Cardinality(referenced_services(i.obj))
       /\ Cardinality(referenced_services(i.obj)) >= 2
       /\ \E e \in EdgeSet : e[1] = fkey("Ingress", i.ns, i.name)

=============================================================================
